---- MODULE Spec2Model ----
(***************************************************************************)
(* Model of the AMF monitor (Memoryusage.py): the resource Sampler thread, *)
(* the log Tracker (monitor_log), the coordinator (main) and the           *)
(* Correlator / Report Writer (analyze_and_write); of the offline          *)
(* analyzer's loop (processing_time.py); and of the test orchestrator      *)
(* (python_test_orchestrator.py) that starts the monitor for each test.    *)
(*                                                                         *)
(* Time is counted in whole seconds (clock).  A log line is a sequence of  *)
(* tokens: the literals "suci-" and "imsi-", single digits, "-", the       *)
(* literal "RC" standing for the substring "Registration complete", and    *)
(* "x" for any other character.  Python's None is the empty sequence and a *)
(* set timestamp t is <<t>>.                                               *)
(***************************************************************************)
EXTENDS Integers, Sequences, FiniteSets, TLC

VARIABLES
    clock,        \* datetime.now(), in seconds
    logFile,      \* content of LOG_FILE, a sequence of lines
    fpos,         \* the Tracker's file position, in lines
    processed,    \* history: the lines readline() returned, with their stamps
    ue_windows,   \* the window map, in insertion order
    samples,      \* the Sample Store
    sampling,     \* module flag `sampling`
    stop_event,   \* threading.Event
    signalled,    \* history: None, or <<mainpc>> when a signal was delivered
    mainpc,       \* position of main()
    samplerpc,    \* position of the sampler thread
    sample_ts,    \* `ts` of the sampling cycle in progress
    measure_end,  \* when the blocking cpu_percent(interval) returns
    join_deadline,\* when sampler.join(timeout) gives up
    proc_alive,   \* the AMF process exists
    interval,     \* SAMPLING_INTERVAL (--interval)
    num_expected, \* --num-ues
    csv_file,     \* the summary CSV: [exists, rows]
    per_ue_csv,   \* the detail CSV: [exists, rows]
    warnings,     \* the [WARN] lines printed
    analysis_started, \* history: Len(samples) when analyze_and_write began
    orch          \* the test orchestrator: its configuration and position

vars == <<clock, logFile, fpos, processed, ue_windows, samples, sampling,
          stop_event, signalled, mainpc, samplerpc, sample_ts, measure_end,
          join_deadline, proc_alive, interval, num_expected, csv_file,
          per_ue_csv, warnings, analysis_started, orch>>

\* ------------------------------------------------------------------ bounds
MaxClock == 1      \* the Tracker on its own: the clock stops here
MaxLog == 3        \* lines appended to the log after the seek
RunMaxClock == 6   \* the whole run: the clock stops here
AnMaxT == 2        \* analyze_and_write on its own: the latest timestamp
MaxSamples == 2    \* analyze_and_write on its own: Samples in the store

\* ------------------------------------------------------- program constants
IdLen == 6
JoinTimeout == 2

None == <<>>
Some(t) == <<t>>

\* ------------------------------------------------------------- log lines
Digits == {"0", "1", "2", "3", "4", "5", "6", "7", "8", "9"}

IsDigit(c) == c \in Digits

UE_A == <<"0", "0", "0", "0", "0", "1">>
UE_B == <<"0", "0", "0", "0", "0", "2">>

SuciLine(ue) == <<"suci-", "0", "-", "0">> \o ue
ImsiDoneLine(ue) == <<"imsi-", "9">> \o ue \o <<"x", "RC">>
ImsiOnlyLine(ue) == <<"x", "imsi-", "9">> \o ue
BothLine(a, b) == SuciLine(a) \o <<"x">> \o ImsiDoneLine(b)

\* The markers of another subscriber whose identifiers end on the same six
\* digits: suci-0-1<ue> and imsi-8<ue> next to suci-0-0<ue> and imsi-9<ue>.
SuciLineAlt(ue) == <<"suci-", "0", "-", "1">> \o ue
ImsiDoneLineAlt(ue) == <<"imsi-", "8">> \o ue \o <<"x", "RC">>

AllLines == {SuciLine(UE_A), SuciLine(UE_B), ImsiDoneLine(UE_A),
             ImsiDoneLine(UE_B), ImsiOnlyLine(UE_A), BothLine(UE_A, UE_B),
             SuciLineAlt(UE_A), ImsiDoneLineAlt(UE_A)}

\* Lines that are no marker: other text, the substring with no identifier,
\* and identifiers of six digits only, one short of what the patterns need.
NoiseLine == <<"x">>
RcOnlyLine == <<"x", "RC">>
ShortSuciLine(ue) == <<"suci-">> \o ue
ShortImsiDoneLine(ue) == <<"imsi-">> \o ue \o <<"x", "RC">>

OddLines == {SuciLine(UE_A), ImsiDoneLine(UE_A), ImsiOnlyLine(UE_A),
             ImsiOnlyLine(UE_B), NoiseLine, RcOnlyLine, ShortSuciLine(UE_B),
             ShortImsiDoneLine(UE_B)}

\* A line the AMF writes with two write() calls: the head, which does not end
\* the line, and the rest, which ends with the newline.  The line may be cut
\* after any of its tokens but the last.
TwoPartLines == {SuciLine(UE_A), ImsiDoneLine(UE_A)}

HeadOf(l, k) == SubSeq(l, 1, k)

RestOf(l, k) == SubSeq(l, k + 1, Len(l))

Cuts(l) == 1..(Len(l) - 1)

Heads == UNION {{HeadOf(l, k) : k \in Cuts(l)} : l \in TwoPartLines}

Rests == UNION {{RestOf(l, k) : k \in Cuts(l)} : l \in TwoPartLines}

LogLines == AllLines \cup OddLines \cup Heads \cup Rests

\* The lines of the whole-run scenario, in the order the AMF writes them.
RunScript == <<SuciLine(UE_A), ImsiDoneLine(UE_A), SuciLine(UE_B),
               ImsiDoneLine(UE_B)>>

NextScripted(log) ==
    IF Len(log) < Len(RunScript) THEN {RunScript[Len(log) + 1]} ELSE {}

\* --num-ues and --interval (seconds) of the runs explored.
ExpectedCounts == {1, 2}
Intervals == {1, 3}
CpuVals == {10}
MemVals == {100}

\* What the log may already hold when the monitor starts.
PreLogs == {<<>>, <<SuciLine(UE_A), ImsiDoneLine(UE_A)>>}

\* ------------------------------------------------------------ the regexes
\* Length of the run of tokens of class InClass starting at position i.
RECURSIVE RunLen(_, _, _)
RunLen(line, i, cls) ==
    IF i > Len(line) \/ line[i] \notin cls THEN 0
    ELSE 1 + RunLen(line, i + 1, cls)

AllDigits(line, a, b) == \A j \in a..b : j \in DOMAIN line /\ IsDigit(line[j])

\* The ways `prefix cls+ (\d{6})` matches with the prefix token at position i:
\* the number k >= 1 of tokens cls+ takes, followed by IdLen digits.
MatchLens(line, i, prefix, cls) ==
    IF line[i] # prefix THEN {}
    ELSE {k \in 1..RunLen(line, i + 1, cls) :
              AllDigits(line, i + k + 1, i + k + IdLen)}

Max(S) == CHOOSE x \in S : \A y \in S : y <= x
Min(S) == CHOOSE x \in S : \A y \in S : x <= y

\* re.search(prefix cls+ (\d{6})).group(1): leftmost start, greedy cls+.
\* None when the pattern does not match.
Search(line, prefix, cls) ==
    LET starts == {i \in DOMAIN line : MatchLens(line, i, prefix, cls) # {}}
    IN  IF starts = {} THEN None
        ELSE LET i == Min(starts)
                 k == Max(MatchLens(line, i, prefix, cls))
             IN  Some(SubSeq(line, i + k + 1, i + k + IdLen))

\* The identifier the pattern matched (what follows the prefix in group(0)):
\* the tokens cls+ took and the six digits of group(1).
MatchedId(line, prefix, cls) ==
    LET starts == {i \in DOMAIN line : MatchLens(line, i, prefix, cls) # {}}
    IN  IF starts = {} THEN None
        ELSE LET i == Min(starts)
                 k == Max(MatchLens(line, i, prefix, cls))
             IN  Some(SubSeq(line, i + 1, i + k + IdLen))

\* The two patterns, matched once against every line the log can hold.
SuciGroups == [l \in LogLines |-> Search(l, "suci-", Digits \cup {"-"})]

ImsiGroups == [l \in LogLines |-> Search(l, "imsi-", Digits)]

suci_match_WholeId(line) == MatchedId(line, "suci-", Digits \cup {"-"})

\* re.search(r"suci-[\d\-]+(\d{6})", line)
suci_match(line) == SuciGroups[line]

\* re.search(r"imsi-\d+(\d{6})", line)
imsi_match(line) == ImsiGroups[line]

HasRegistrationComplete(line) == \E j \in DOMAIN line : line[j] = "RC"

\* ---------------------------------------------------------- the window map
HasKey(w, ue) == \E i \in DOMAIN w : w[i].ue = ue

IndexOf(w, ue) == CHOOSE i \in DOMAIN w : w[i].ue = ue

\* defaultdict.__getitem__: a missing key is inserted with both fields None.
Touch(w, ue) ==
    IF HasKey(w, ue) THEN w
    ELSE Append(w, [ue |-> ue, start |-> None, end |-> None])

\* `if ue_windows[ue]["start"] is None: ue_windows[ue]["start"] = ts`
RecordStart_Overwrite(w, ue, ts) ==
    LET w1 == Touch(w, ue)
        i == IndexOf(w1, ue)
    IN  [w1 EXCEPT ![i].start = Some(ts)]

RecordStart(w, ue, ts) ==
    LET w1 == Touch(w, ue)
        i == IndexOf(w1, ue)
    IN  IF w1[i].start = None THEN [w1 EXCEPT ![i].start = Some(ts)] ELSE w1

RecordEnd_Overwrite(w, ue, ts) ==
    LET w1 == Touch(w, ue)
        i == IndexOf(w1, ue)
    IN  [w1 EXCEPT ![i].end = Some(ts)]

\* `if ue_windows[ue]["end"] is None: ue_windows[ue]["end"] = ts`
RecordEnd(w, ue, ts) ==
    LET w1 == Touch(w, ue)
        i == IndexOf(w1, ue)
    IN  IF w1[i].end = None THEN [w1 EXCEPT ![i].end = Some(ts)] ELSE w1

IsCloseMarker_NoSubstring(line) == imsi_match(line) # None

\* `imsi_match and "Registration complete" in line`
IsCloseMarker(line) == imsi_match(line) # None /\ HasRegistrationComplete(line)

ProcessLine_TouchesOnMatch(w, line, ts) ==
    LET w1 == IF suci_match(line) # None
              THEN RecordStart(w, suci_match(line)[1], ts) ELSE w
        w2 == IF imsi_match(line) # None
              THEN Touch(w1, imsi_match(line)[1]) ELSE w1
    IN  IF IsCloseMarker(line)
        THEN RecordEnd(w2, imsi_match(line)[1], ts) ELSE w2

\* One iteration of monitor_log's loop body on a line read at time ts.
ProcessLine(w, line, ts) ==
    LET w1 == IF suci_match(line) # None
              THEN RecordStart(w, suci_match(line)[1], ts) ELSE w
    IN  IF IsCloseMarker(line)
        THEN RecordEnd(w1, imsi_match(line)[1], ts) ELSE w1

\* processing_time.py: one iteration of the loop over the lines of the log,
\* for a line that begins with a timestamp ts.  log_timestamps is kept as a
\* window map, its field "complete" being `end`.  A line that sets a start is
\* left with `continue`; any other line goes on to the close-marker test.
log_timestamps_line(w, line, ts) ==
    LET sm == suci_match(line)
        w1 == IF sm # None THEN Touch(w, sm[1]) ELSE w
    IN  IF sm # None /\ w1[IndexOf(w1, sm[1])].start = None
        THEN RecordStart(w1, sm[1], ts)
        ELSE IF IsCloseMarker(line)
             THEN RecordEnd(w1, imsi_match(line)[1], ts)
             ELSE w1

completed_Either(w) == {i \in DOMAIN w : w[i].start # None \/ w[i].end # None}

\* `if ue_windows[ue]["start"] and ue_windows[ue]["end"]`
completed(w) == {i \in DOMAIN w : w[i].start # None /\ w[i].end # None}

AllRegistered_Strict(w, n) == Cardinality(completed(w)) > n

\* `len(completed) >= num_expected_ues`
AllRegistered(w, n) == Cardinality(completed(w)) >= n


\* ------------------------------------------------------- analyze_and_write
Milli == 1000   \* round(x, 3): durations are kept in thousandths of a second
Centi == 100    \* round(x, 2): CPU and memory are kept in hundredths

RECURSIVE SumSeq(_)
SumSeq(s) == IF s = <<>> THEN 0 ELSE Head(s) + SumSeq(Tail(s))

\* round(a / n, 0) for n > 0, ties to even as Python's round().
RoundDiv(a, n) ==
    LET q == a \div n
        r == a % n
    IN  IF 2 * r < n THEN q
        ELSE IF 2 * r > n THEN q + 1
        ELSE IF q % 2 = 0 THEN q ELSE q + 1

IsComplete(win) == win.start # None /\ win.end # None

per_ue_rows_OpenIncluded(w) ==
    LET Started(win) == win.start # None
        cw == SelectSeq(w, Started)
        EndOf(win) == IF win.end = None THEN win.start[1] ELSE win.end[1]
    IN  [i \in 1..Len(cw) |->
            [ue |-> cw[i].ue, start |-> cw[i].start[1], end |-> EndOf(cw[i]),
             duration |-> (EndOf(cw[i]) - cw[i].start[1]) * Milli]]

\* (ue, start, end, round(duration, 3)) for every complete window, in the
\* window map's order.
per_ue_rows(w) ==
    LET cw == SelectSeq(w, IsComplete)
    IN  [i \in 1..Len(cw) |->
            [ue |-> cw[i].ue, start |-> cw[i].start[1], end |-> cw[i].end[1],
             duration |-> (cw[i].end[1] - cw[i].start[1]) * Milli]]

global_start(rows) == Min({rows[i].start : i \in DOMAIN rows})

global_end_First(rows) == rows[1].end

\* `max(all_end_times)`
global_end(rows) == Max({rows[i].end : i \in DOMAIN rows})

global_samples_Exclusive(samps, rows) ==
    LET InWindow(s) == global_start(rows) < s.ts /\ s.ts < global_end(rows)
    IN  SelectSeq(samps, InWindow)

\* `[s for s in samples if global_start <= s[0] <= global_end]`
global_samples(samps, rows) ==
    LET InWindow(s) == global_start(rows) <= s.ts /\ s.ts <= global_end(rows)
    IN  SelectSeq(samps, InWindow)

avg_ue_time_GlobalSpan(rows) ==
    RoundDiv((global_end(rows) - global_start(rows)) * Milli, Len(rows))

\* `sum(r[3] for r in per_ue_rows) / len(per_ue_rows)`, then round(.., 3).
avg_ue_time(rows) ==
    RoundDiv(SumSeq([i \in DOMAIN rows |-> rows[i].duration]), Len(rows))

cpu_avg(gs) == RoundDiv(SumSeq([i \in DOMAIN gs |-> gs[i].cpu]) * Centi, Len(gs))

mem_avg(gs) == RoundDiv(SumSeq([i \in DOMAIN gs |-> gs[i].mem]) * Centi, Len(gs))

summary_row_CountsEntries(samps, rows, now) ==
    LET gs == global_samples(samps, rows)
    IN  [kind |-> "row",
         timestamp |-> now,
         num_UEs |-> Len(ue_windows),
         total_time |-> (global_end(rows) - global_start(rows)) * Milli,
         avg_ue_registration_time |-> avg_ue_time(rows),
         avg_CPU |-> cpu_avg(gs),
         avg_memory |-> mem_avg(gs)]

summary_row(samps, rows, now) ==
    LET gs == global_samples(samps, rows)
    IN  [kind |-> "row",
         timestamp |-> now,
         num_UEs |-> Len(rows),
         total_time |-> (global_end(rows) - global_start(rows)) * Milli,
         avg_ue_registration_time |-> avg_ue_time(rows),
         avg_CPU |-> cpu_avg(gs),
         avg_memory |-> mem_avg(gs)]

\* Which return of analyze_and_write is taken.
AnalysisStatus(samps, w) ==
    IF samps = <<>> THEN "no_samples"
    ELSE IF per_ue_rows(w) = <<>> THEN "no_windows"
    ELSE IF global_samples(samps, per_ue_rows(w)) = <<>> THEN "no_global_samples"
    ELSE "ok"

HeaderRow == [kind |-> "header"]

\* A file: whether it exists, its rows, and whether the data written to it was
\* forced to stable storage (flush() and os.fsync()) before it was closed.
NoFile == [exists |-> FALSE, rows |-> <<>>, synced |-> FALSE]

AppendSummary_AlwaysHeader(f, row) ==
    [exists |-> TRUE,
     rows |-> f.rows \o <<HeaderRow, row>>,
     synced |-> TRUE]

\* open(CSV_FILE, "a"): the header only when the file did not exist; then
\* f.flush() and os.fsync(f.fileno()).
AppendSummary(f, row) ==
    [exists |-> TRUE,
     rows |-> IF f.exists THEN Append(f.rows, row) ELSE <<HeaderRow, row>>,
     synced |-> TRUE]

WriteDetail_Append(rows) ==
    [exists |-> TRUE,
     rows |-> IF per_ue_csv.exists THEN per_ue_csv.rows \o rows
              ELSE <<HeaderRow>> \o rows,
     synced |-> FALSE]

\* open(per_ue_csv, "w"): the file is rewritten; it is closed by the `with`
\* block, with no os.fsync().
WriteDetail(rows) ==
    [exists |-> TRUE, rows |-> <<HeaderRow>> \o rows, synced |-> FALSE]

\* ------------------------------------------------------- the orchestrator
\* TestOrchestrator (python_test_orchestrator.py).  orch holds what it was
\* configured with (ue_counts, iterations, continue_on_failure, max_retries),
\* the loop variables of run_all_tests as positions in the two lists and the
\* iteration number, test_results, and histories: the tests attempted, how
\* many of them returned False, the result of each start attempt of
\* restart_services, the message of the exception run_single_test caught, and
\* whether the summary report was written.
MaxIterations == 2  \* iterations_per_test is at most this
MaxRetries == 2     \* max_retries is at most this
TestMaxClock == 60  \* one test with its monitor: the clock stops here
MaxRegDelay == 2    \* a launched UE registers within this many seconds

CsvWaitTimeout == 60

auth_methods == <<"5G_AKA", "EAP_AKA">>

UeCountLists == {<<1>>, <<1, 2>>}

\* No orchestrator: the monitor is run by hand.
OrchOff ==
    [pc |-> "off", ue_counts |-> <<>>, iterations |-> 0,
     continue_on_failure |-> FALSE, max_retries |-> 0,
     auth_method |-> 1, ue_count |-> 1, iteration |-> 0, current_test |-> 0,
     attempted |-> <<>>, test_results |-> <<>>, failures |-> 0,
     success |-> None, starts |-> <<>>, error |-> "none", wait_start |-> 0,
     report |-> FALSE]

\* ----------------------------------------------------------------- actions
\* The process has exited: main returned or sys.exit(1) was called, and the
\* daemon sampler thread died with it.
Exited == mainpc \in {"done", "aborted"}

SamplerFinished == samplerpc \in {"done", "raised"}

\* A thread that is not blocked: the sampler outside cpu_percent(interval) or
\* with the interval over; main outside its waits (no line to read, join
\* pending, the files being written).
SamplerRunnable ==
    /\ ~Exited
    /\ \/ samplerpc \in {"prime", "loop"}
       \/ samplerpc = "measuring" /\ clock >= measure_end

MainRunnable ==
    \/ mainpc \in {"start", "sleep", "stopping", "analyze"}
    \/ mainpc = "monitor" /\ fpos < Len(logFile)
    \/ mainpc = "join" /\ (SamplerFinished \/ clock >= join_deadline)

\* A second passes.  The steps of a thread that is not blocked take well
\* under a second (time.sleep(0.2), the 0.05 s poll), so a whole second
\* passes only while both threads are blocked.
Tick(bound) ==
    /\ clock < bound
    /\ ~SamplerRunnable
    /\ ~MainRunnable
    /\ clock' = clock + 1
    /\ UNCHANGED <<logFile, fpos, processed, ue_windows, samples, sampling,
                   stop_event, signalled, mainpc, samplerpc, sample_ts,
                   measure_end, join_deadline, proc_alive, interval,
                   num_expected, csv_file, per_ue_csv, warnings,
                   analysis_started, orch>>

\* The external writer (the AMF) appends one of the lines S to the log.
AppendLine(S) ==
    /\ Len(processed) + (Len(logFile) - fpos) < MaxLog
    /\ \E l \in S : logFile' = Append(logFile, l)
    /\ UNCHANGED <<clock, fpos, processed, ue_windows, samples, sampling,
                   stop_event, signalled, mainpc, samplerpc, sample_ts,
                   measure_end, join_deadline, proc_alive, interval,
                   num_expected, csv_file, per_ue_csv, warnings,
                   analysis_started, orch>>

\* SIGINT or SIGTERM is delivered: _handle_signal runs.
HandleSignal ==
    /\ ~Exited
    /\ signalled = None
    /\ sampling' = FALSE
    /\ stop_event' = TRUE
    /\ signalled' = Some(mainpc)
    /\ UNCHANGED <<clock, logFile, fpos, processed, ue_windows, samples,
                   mainpc, samplerpc, sample_ts, measure_end, join_deadline,
                   proc_alive, interval, num_expected, csv_file, per_ue_csv,
                   warnings, analysis_started, orch>>

\* The AMF process goes away.
ProcessExits ==
    /\ ~Exited
    /\ proc_alive
    /\ mainpc # "start"
    /\ proc_alive' = FALSE
    /\ UNCHANGED <<clock, logFile, fpos, processed, ue_windows, samples,
                   sampling, stop_event, signalled, mainpc, samplerpc,
                   sample_ts, measure_end, join_deadline, interval,
                   num_expected, csv_file, per_ue_csv, warnings,
                   analysis_started, orch>>

GetPidFails_Continues ==
    /\ mainpc = "start"
    /\ ~proc_alive
    /\ samplerpc' = "prime"
    /\ mainpc' = "sleep"
    /\ UNCHANGED <<clock, logFile, fpos, processed, ue_windows, samples,
                   sampling, stop_event, signalled, sample_ts, measure_end,
                   join_deadline, proc_alive, interval, num_expected,
                   csv_file, per_ue_csv, warnings, analysis_started, orch>>

\* get_amf_pid: pgrep finds no process, sys.exit(1).
GetPidFails ==
    /\ mainpc = "start"
    /\ ~proc_alive
    /\ mainpc' = "aborted"
    /\ UNCHANGED <<clock, logFile, fpos, processed, ue_windows, samples,
                   sampling, stop_event, signalled, samplerpc, sample_ts,
                   measure_end, join_deadline, proc_alive, interval,
                   num_expected, csv_file, per_ue_csv, warnings,
                   analysis_started, orch>>

\* main: the process is found, sampler.start(), then time.sleep(0.2).
StartSampler ==
    /\ mainpc = "start"
    /\ proc_alive
    /\ samplerpc' = "prime"
    /\ mainpc' = "sleep"
    /\ UNCHANGED <<clock, logFile, fpos, processed, ue_windows, samples,
                   sampling, stop_event, signalled, sample_ts, measure_end,
                   join_deadline, proc_alive, interval, num_expected,
                   csv_file, per_ue_csv, warnings, analysis_started, orch>>

\* sample_amf_usage: the priming cpu_percent(interval=None), outside the try.
SamplerPrime ==
    /\ samplerpc = "prime"
    /\ ~Exited
    /\ samplerpc' = IF proc_alive THEN "loop" ELSE "raised"
    /\ UNCHANGED <<clock, logFile, fpos, processed, ue_windows, samples,
                   sampling, stop_event, signalled, mainpc, sample_ts,
                   measure_end, join_deadline, proc_alive, interval,
                   num_expected, csv_file, per_ue_csv, warnings,
                   analysis_started, orch>>

SamplerLoop_IgnoresStop ==
    /\ samplerpc = "loop"
    /\ ~Exited
    /\ samplerpc' = "measuring"
    /\ sample_ts' = clock
    /\ measure_end' = clock + interval
    /\ UNCHANGED <<clock, logFile, fpos, processed, ue_windows, samples,
                   sampling, stop_event, signalled, mainpc, join_deadline,
                   proc_alive, interval, num_expected, csv_file, per_ue_csv,
                   warnings, analysis_started, orch>>

\* sample_amf_usage: the while test; a new cycle reads the clock and blocks
\* in cpu_percent(interval=SAMPLING_INTERVAL).
SamplerLoop ==
    /\ samplerpc = "loop"
    /\ ~Exited
    /\ IF sampling /\ ~stop_event
       THEN /\ samplerpc' = "measuring"
            /\ sample_ts' = clock
            /\ measure_end' = clock + interval
       ELSE /\ samplerpc' = "done"
            /\ UNCHANGED <<sample_ts, measure_end>>
    /\ UNCHANGED <<clock, logFile, fpos, processed, ue_windows, samples,
                   sampling, stop_event, signalled, mainpc, join_deadline,
                   proc_alive, interval, num_expected, csv_file, per_ue_csv,
                   warnings, analysis_started, orch>>

SamplerAppend_StampsAtInsert ==
    /\ samplerpc = "measuring"
    /\ ~Exited
    /\ clock >= measure_end
    /\ IF proc_alive
       THEN /\ \E cpu \in CpuVals, mem \in MemVals :
                  samples' = Append(samples,
                                    [ts |-> clock, cpu |-> cpu, mem |-> mem])
            /\ samplerpc' = "loop"
       ELSE /\ samplerpc' = "done"
            /\ UNCHANGED samples
    /\ UNCHANGED <<clock, logFile, fpos, processed, ue_windows, sampling,
                   stop_event, signalled, mainpc, sample_ts, measure_end,
                   join_deadline, proc_alive, interval, num_expected,
                   csv_file, per_ue_csv, warnings, analysis_started, orch>>

\* sample_amf_usage: cpu_percent returns, memory is read, the Sample is
\* appended; NoSuchProcess breaks out of the loop.
SamplerAppend ==
    /\ samplerpc = "measuring"
    /\ ~Exited
    /\ clock >= measure_end
    /\ IF proc_alive
       THEN /\ \E cpu \in CpuVals, mem \in MemVals :
                  samples' = Append(samples,
                                    [ts |-> sample_ts, cpu |-> cpu, mem |-> mem])
            /\ samplerpc' = "loop"
       ELSE /\ samplerpc' = "done"
            /\ UNCHANGED samples
    /\ UNCHANGED <<clock, logFile, fpos, processed, ue_windows, sampling,
                   stop_event, signalled, mainpc, sample_ts, measure_end,
                   join_deadline, proc_alive, interval, num_expected,
                   csv_file, per_ue_csv, warnings, analysis_started, orch>>

TrackerOpen_FromStart ==
    /\ mainpc = "sleep"
    /\ fpos' = 0
    /\ mainpc' = "monitor"
    /\ UNCHANGED <<clock, logFile, processed, ue_windows, samples, sampling,
                   stop_event, signalled, samplerpc, sample_ts, measure_end,
                   join_deadline, proc_alive, interval, num_expected,
                   csv_file, per_ue_csv, warnings, analysis_started, orch>>

\* monitor_log: open the log and seek to its end.
TrackerOpen ==
    /\ mainpc = "sleep"
    /\ fpos' = Len(logFile)
    /\ mainpc' = "monitor"
    /\ UNCHANGED <<clock, logFile, processed, ue_windows, samples, sampling,
                   stop_event, signalled, samplerpc, sample_ts, measure_end,
                   join_deadline, proc_alive, interval, num_expected,
                   csv_file, per_ue_csv, warnings, analysis_started, orch>>

\* monitor_log: readline() returned a line; it is stamped, matched, and the
\* complete windows are counted.  (With no line to read the loop sleeps 0.05 s
\* and tries again, which changes nothing.)
TrackerReadLine ==
    /\ mainpc = "monitor"
    /\ fpos < Len(logFile)
    /\ fpos' = fpos + 1
    /\ processed' = Append(processed, [line |-> logFile[fpos + 1], ts |-> clock])
    /\ ue_windows' = ProcessLine(ue_windows, logFile[fpos + 1], clock)
    /\ mainpc' = IF AllRegistered(ue_windows', num_expected)
                 THEN "stopping" ELSE "monitor"
    /\ UNCHANGED <<clock, logFile, samples, sampling, stop_event, signalled,
                   samplerpc, sample_ts, measure_end, join_deadline,
                   proc_alive, interval, num_expected, csv_file, per_ue_csv,
                   warnings, analysis_started, orch>>

\* main: sampling = False; stop_event.set(); sampler.join(timeout=2.0) begins.
StopSampler ==
    /\ mainpc = "stopping"
    /\ sampling' = FALSE
    /\ stop_event' = TRUE
    /\ join_deadline' = clock + JoinTimeout
    /\ mainpc' = "join"
    /\ UNCHANGED <<clock, logFile, fpos, processed, ue_windows, samples,
                   signalled, samplerpc, sample_ts, measure_end, proc_alive,
                   interval, num_expected, csv_file, per_ue_csv, warnings,
                   analysis_started, orch>>

\* main: join returns, the thread having ended or the timeout having passed
\* with the sampler still blocked in its measurement.
JoinReturns ==
    /\ mainpc = "join"
    /\ SamplerFinished \/ (clock >= join_deadline /\ ~SamplerRunnable)
    /\ mainpc' = "analyze"
    /\ UNCHANGED <<clock, logFile, fpos, processed, ue_windows, samples,
                   sampling, stop_event, signalled, samplerpc, sample_ts,
                   measure_end, join_deadline, proc_alive, interval,
                   num_expected, csv_file, per_ue_csv, warnings,
                   analysis_started, orch>>

\* analyze_and_write is entered: `if not samples`.
AnalyzeBegin ==
    /\ mainpc = "analyze"
    /\ analysis_started' = Some(Len(samples))
    /\ IF samples = <<>>
       THEN /\ warnings' = Append(warnings, "no_samples")
            /\ mainpc' = "done"
       ELSE /\ mainpc' = "correlate"
            /\ UNCHANGED warnings
    /\ UNCHANGED <<clock, logFile, fpos, processed, ue_windows, samples,
                   sampling, stop_event, signalled, samplerpc, sample_ts,
                   measure_end, join_deadline, proc_alive, interval,
                   num_expected, csv_file, per_ue_csv, orch>>

AnalyzeFinish_ConsumesSamples ==
    /\ mainpc = "correlate"
    /\ LET st == AnalysisStatus(samples, ue_windows)
           rows == per_ue_rows(ue_windows)
       IN  IF st = "ok"
           THEN /\ csv_file' = AppendSummary(csv_file,
                                             summary_row(samples, rows, clock))
                /\ per_ue_csv' = WriteDetail(rows)
                /\ samples' = global_samples(samples, rows)
                /\ UNCHANGED warnings
           ELSE /\ warnings' = Append(warnings, st)
                /\ UNCHANGED <<csv_file, per_ue_csv, samples>>
    /\ mainpc' = "done"
    /\ UNCHANGED <<clock, logFile, fpos, processed, ue_windows, sampling,
                   stop_event, signalled, samplerpc, sample_ts, measure_end,
                   join_deadline, proc_alive, interval, num_expected,
                   analysis_started, orch>>

AnalyzeFinish_DetailFirst ==
    /\ mainpc = "correlate"
    /\ LET st == AnalysisStatus(samples, ue_windows)
           rows == per_ue_rows(ue_windows)
       IN  /\ per_ue_csv' = WriteDetail(rows)
           /\ IF st = "ok"
              THEN /\ csv_file' = AppendSummary(csv_file,
                                                summary_row(samples, rows, clock))
                   /\ UNCHANGED warnings
              ELSE /\ warnings' = Append(warnings, st)
                   /\ UNCHANGED csv_file
    /\ mainpc' = "done"
    /\ UNCHANGED <<clock, logFile, fpos, processed, ue_windows, samples,
                   sampling, stop_event, signalled, samplerpc, sample_ts,
                   measure_end, join_deadline, proc_alive, interval,
                   num_expected, analysis_started, orch>>

\* analyze_and_write: the windows are correlated with the Sample Store and
\* both files are written.
AnalyzeFinish ==
    /\ mainpc = "correlate"
    /\ LET st == AnalysisStatus(samples, ue_windows)
           rows == per_ue_rows(ue_windows)
       IN  IF st = "ok"
           THEN /\ csv_file' = AppendSummary(csv_file,
                                             summary_row(samples, rows, clock))
                /\ per_ue_csv' = WriteDetail(rows)
                /\ UNCHANGED warnings
           ELSE /\ warnings' = Append(warnings, st)
                /\ UNCHANGED <<csv_file, per_ue_csv>>
    /\ mainpc' = "done"
    /\ UNCHANGED <<clock, logFile, fpos, processed, ue_windows, samples,
                   sampling, stop_event, signalled, samplerpc, sample_ts,
                   measure_end, join_deadline, proc_alive, interval,
                   num_expected, analysis_started, orch>>

\* -------------------------------------------------------- the whole run
Init ==
    /\ clock = 0
    /\ logFile = <<>>
    /\ fpos = 0
    /\ processed = <<>>
    /\ ue_windows = <<>>
    /\ samples = <<>>
    /\ sampling = TRUE
    /\ stop_event = FALSE
    /\ signalled = None
    /\ mainpc = "start"
    /\ samplerpc = "idle"
    /\ sample_ts = 0
    /\ measure_end = 0
    /\ join_deadline = 0
    /\ proc_alive \in BOOLEAN
    /\ interval \in Intervals
    /\ num_expected \in ExpectedCounts
    /\ csv_file = NoFile
    /\ per_ue_csv = NoFile
    /\ warnings = <<>>
    /\ analysis_started = None
    /\ orch = OrchOff

Next ==
    \/ Tick(RunMaxClock)
    \/ AppendLine(NextScripted(logFile))
    \/ HandleSignal
    \/ ProcessExits
    \/ GetPidFails
    \/ StartSampler
    \/ SamplerPrime
    \/ SamplerLoop
    \/ SamplerAppend
    \/ TrackerOpen
    \/ TrackerReadLine
    \/ StopSampler
    \/ JoinReturns
    \/ AnalyzeBegin
    \/ AnalyzeFinish

Spec == Init /\ [][Next]_vars

\* The same run with both threads scheduled: a step of main, a step of the
\* sampler or the passing of time that stays possible is eventually taken.
\* The log writer, signals and the death of the AMF are left to chance.
MainStep ==
    \/ GetPidFails
    \/ StartSampler
    \/ TrackerOpen
    \/ TrackerReadLine
    \/ StopSampler
    \/ JoinReturns
    \/ AnalyzeBegin
    \/ AnalyzeFinish

SamplerStep ==
    \/ SamplerPrime
    \/ SamplerLoop
    \/ SamplerAppend

FairSpec ==
    /\ Spec
    /\ WF_vars(MainStep)
    /\ WF_vars(SamplerStep)
    /\ WF_vars(Tick(RunMaxClock))

\* The fair run followed for a shorter time.
LiveMaxClock == 4  \* the fair run: the clock stops here

LiveNext ==
    \/ Tick(LiveMaxClock)
    \/ AppendLine(NextScripted(logFile))
    \/ HandleSignal
    \/ ProcessExits
    \/ GetPidFails
    \/ StartSampler
    \/ SamplerPrime
    \/ SamplerLoop
    \/ SamplerAppend
    \/ TrackerOpen
    \/ TrackerReadLine
    \/ StopSampler
    \/ JoinReturns
    \/ AnalyzeBegin
    \/ AnalyzeFinish

LiveSpec ==
    /\ Init
    /\ [][LiveNext]_vars
    /\ WF_vars(MainStep)
    /\ WF_vars(SamplerStep)
    /\ WF_vars(Tick(LiveMaxClock))

\* ------------------------------------------------- the Tracker on its own
\* monitor_log fed every sequence of lines: main is about to call it, the
\* sampler plays no part.
TrackerInit ==
    /\ clock = 0
    /\ logFile \in PreLogs
    /\ fpos = 0
    /\ processed = <<>>
    /\ ue_windows = <<>>
    /\ samples = <<>>
    /\ sampling = TRUE
    /\ stop_event = FALSE
    /\ signalled = None
    /\ mainpc = "sleep"
    /\ samplerpc = "done"
    /\ sample_ts = 0
    /\ measure_end = 0
    /\ join_deadline = 0
    /\ proc_alive = TRUE
    /\ interval = 1
    /\ num_expected \in ExpectedCounts
    /\ csv_file = NoFile
    /\ per_ue_csv = NoFile
    /\ warnings = <<>>
    /\ analysis_started = None
    /\ orch = OrchOff

TrackerNext ==
    \/ Tick(MaxClock)
    \/ mainpc = "monitor" /\ AppendLine(AllLines)
    \/ TrackerOpen
    \/ TrackerReadLine

TrackerSpec == TrackerInit /\ [][TrackerNext]_vars

\* monitor_log fed markers of one entity among lines that are no marker.
OddLinesNext ==
    \/ Tick(MaxClock)
    \/ mainpc = "monitor" /\ AppendLine(OddLines)
    \/ TrackerOpen
    \/ TrackerReadLine

OddLinesSpec == TrackerInit /\ [][OddLinesNext]_vars

\* ------------------------------------- the Tracker and a line in two parts
\* monitor_log while the AMF writes lines whole or in two parts.  Here an
\* entry of logFile is what one readline() delivers: a whole line, or, when
\* the Tracker reaches the end of the file between the two writes, the head
\* (the text up to the end of the file, with no newline) and later the rest.
\* A head is the one kind of entry that does not end with a newline.
TailOpen == logFile # <<>> /\ logFile[Len(logFile)] \in Heads

WriteWhole ==
    /\ mainpc = "monitor"
    /\ ~TailOpen
    /\ AppendLine(TwoPartLines)

WriteHead ==
    /\ mainpc = "monitor"
    /\ ~TailOpen
    /\ AppendLine(Heads)

\* The second write(): if the Tracker has not read the head yet, the file
\* now holds the line whole; if it has, readline() delivers the rest next.
WriteRest ==
    /\ mainpc = "monitor"
    /\ TailOpen
    /\ \E l \in TwoPartLines, k \in 1..Len(logFile[Len(logFile)]) :
          /\ k \in Cuts(l)
          /\ HeadOf(l, k) = logFile[Len(logFile)]
          /\ logFile' = IF fpos < Len(logFile)
                        THEN [logFile EXCEPT ![Len(logFile)] = l]
                        ELSE Append(logFile, RestOf(l, k))
    /\ UNCHANGED <<clock, fpos, processed, ue_windows, samples, sampling,
                   stop_event, signalled, mainpc, samplerpc, sample_ts,
                   measure_end, join_deadline, proc_alive, interval,
                   num_expected, csv_file, per_ue_csv, warnings,
                   analysis_started, orch>>

TwoPartNext ==
    \/ Tick(MaxClock)
    \/ WriteWhole
    \/ WriteHead
    \/ WriteRest
    \/ TrackerOpen
    \/ TrackerReadLine

TwoPartSpec == TrackerInit /\ [][TwoPartNext]_vars

\* --------------------------------------------- analyze_and_write on its own
\* main is about to call analyze_and_write with the sampler stopped; the
\* window map and the Sample Store are any the run can have left behind.
\* An entry of the window map has at least one field set.
OptTimes == {None} \cup {Some(t) : t \in 0..AnMaxT}

Wins(ue) ==
    {[ue |-> ue, start |-> st, end |-> en] :
        st \in OptTimes, en \in OptTimes} \ {[ue |-> ue, start |-> None, end |-> None]}

WindowMaps ==
    {<<>>} \cup {<<a>> : a \in Wins(UE_A)}
           \cup {<<a, b>> : a \in Wins(UE_A), b \in Wins(UE_B)}

AnCpuVals == {10, 30}

SampleVals ==
    {[ts |-> t, cpu |-> c, mem |-> m] :
        t \in 0..AnMaxT, c \in AnCpuVals, m \in MemVals}

\* Sample Stores in the order of capture.
SampleStores ==
    UNION {{st \in [1..n -> SampleVals] :
               \A i \in 1..(n - 1) : st[i].ts <= st[i + 1].ts} :
           n \in 0..MaxSamples}

\* Three entities with windows [0,2], [1,3], [2,5] and one Sample a second
\* from 0 to 5 with CPU 10 and memory 100.
UE_C == <<"0", "0", "0", "0", "0", "3">>

ExampleWindows ==
    <<[ue |-> UE_A, start |-> Some(0), end |-> Some(2)],
      [ue |-> UE_B, start |-> Some(1), end |-> Some(3)],
      [ue |-> UE_C, start |-> Some(2), end |-> Some(5)]>>

ExampleSamples == [i \in 1..6 |-> [ts |-> i - 1, cpu |-> 10, mem |-> 100]]

AnalyzeInit ==
    /\ \/ /\ ue_windows \in WindowMaps
          /\ samples \in SampleStores
          /\ clock = AnMaxT
       \/ /\ ue_windows = ExampleWindows
          /\ samples = ExampleSamples
          /\ clock = 5
    /\ logFile = <<>>
    /\ fpos = 0
    /\ processed = <<>>
    /\ sampling = FALSE
    /\ stop_event = TRUE
    /\ signalled = None
    /\ mainpc = "analyze"
    /\ samplerpc = "done"
    /\ sample_ts = 0
    /\ measure_end = 0
    /\ join_deadline = 0
    /\ proc_alive = TRUE
    /\ interval = 1
    /\ num_expected = 1
    /\ csv_file = NoFile
    /\ per_ue_csv = NoFile
    /\ warnings = <<>>
    /\ analysis_started = None
    /\ orch = OrchOff

AnalyzeNext ==
    \/ AnalyzeBegin
    \/ AnalyzeFinish

AnalyzeSpec == AnalyzeInit /\ [][AnalyzeNext]_vars

\* ------------------------------------------- runs against one summary path
\* The monitor is run again and again with the same --output: the two files
\* stay, everything else starts afresh.  A run takes three seconds; what its
\* Tracker and Sampler leave behind when analyze_and_write is called is one of
\* the window maps and Sample Stores below, t0 being the second the run began.
\* warnings holds the [WARN] lines of all the runs.
MaxRuns == 2       \* runs against the same summary path

RerunWindows(t0) ==
    {<<>>,
     <<[ue |-> UE_A, start |-> Some(t0), end |-> None]>>,
     <<[ue |-> UE_A, start |-> Some(t0), end |-> Some(t0 + 1)]>>,
     <<[ue |-> UE_A, start |-> Some(t0), end |-> Some(t0 + 1)],
       [ue |-> UE_B, start |-> Some(t0 + 1), end |-> Some(t0 + 2)]>>}

RerunSamples(t0) ==
    {<<>>,
     <<[ts |-> t0, cpu |-> 10, mem |-> 100]>>,
     <<[ts |-> t0 + 2, cpu |-> 30, mem |-> 100]>>}

\* The number of runs begun so far.
RunsBegun == (clock + 1) \div 3

\* main is entered by a new process: `samples = []`, a fresh window map; the
\* sampler and the Tracker run, and analyze_and_write is about to be called.
NewRun ==
    /\ mainpc = "done"
    /\ RunsBegun < MaxRuns
    /\ clock' = clock + 3
    /\ ue_windows' \in RerunWindows(clock + 1)
    /\ samples' \in RerunSamples(clock + 1)
    /\ mainpc' = "analyze"
    /\ analysis_started' = None
    /\ UNCHANGED <<logFile, fpos, processed, sampling, stop_event, signalled,
                   samplerpc, sample_ts, measure_end, join_deadline,
                   proc_alive, interval, num_expected, csv_file, per_ue_csv,
                   warnings, orch>>

RerunInit ==
    /\ clock = 2
    /\ ue_windows \in RerunWindows(0)
    /\ samples \in RerunSamples(0)
    /\ logFile = <<>>
    /\ fpos = 0
    /\ processed = <<>>
    /\ sampling = FALSE
    /\ stop_event = TRUE
    /\ signalled = None
    /\ mainpc = "analyze"
    /\ samplerpc = "done"
    /\ sample_ts = 0
    /\ measure_end = 0
    /\ join_deadline = 0
    /\ proc_alive = TRUE
    /\ interval = 1
    /\ num_expected = 1
    /\ csv_file = NoFile
    /\ per_ue_csv = NoFile
    /\ warnings = <<>>
    /\ analysis_started = None
    /\ orch = OrchOff

RerunNext ==
    \/ AnalyzeBegin
    \/ AnalyzeFinish
    \/ NewRun

RerunSpec == RerunInit /\ [][RerunNext]_vars

\* ------------------------------------------------- the orchestrator's runs
\* All the variables of the monitor.
monitorVars ==
    <<clock, logFile, fpos, processed, ue_windows, samples, sampling,
      stop_event, signalled, mainpc, samplerpc, sample_ts, measure_end,
      join_deadline, proc_alive, interval, num_expected, csv_file,
      per_ue_csv, warnings, analysis_started>>

total_tests == Len(auth_methods) * Len(orch.ue_counts) * orch.iterations

\* The three nested for loops have a combination left.
HasNextTest ==
    \/ orch.iteration < orch.iterations
    \/ orch.ue_count < Len(orch.ue_counts)
    \/ orch.auth_method < Len(auth_methods)

\* run_all_tests: the loops move to the next combination, current_test is
\* counted up and run_single_test is entered.
NextTest ==
    /\ orch.pc = "loop"
    /\ HasNextTest
    /\ LET o == IF orch.iteration < orch.iterations
                THEN [orch EXCEPT !.iteration = @ + 1]
                ELSE IF orch.ue_count < Len(orch.ue_counts)
                THEN [orch EXCEPT !.ue_count = @ + 1, !.iteration = 1]
                ELSE [orch EXCEPT !.auth_method = @ + 1, !.ue_count = 1,
                                  !.iteration = 1]
       IN  orch' = [o EXCEPT
                      !.current_test = @ + 1,
                      !.attempted = Append(@,
                          <<auth_methods[o.auth_method],
                            o.ue_counts[o.ue_count], o.iteration>>),
                      !.success = None,
                      !.starts = <<>>,
                      !.error = "none",
                      !.pc = "change_auth"]
    /\ UNCHANGED monitorVars

\* run_single_test: run_command("change_auth") returns True or False.
ChangeAuth ==
    /\ orch.pc = "change_auth"
    /\ \E ok \in BOOLEAN :
          orch' = IF ok THEN [orch EXCEPT !.pc = "restart_services"]
                  ELSE [orch EXCEPT !.pc = "except",
                                    !.error = "Failed to set auth method"]
    /\ UNCHANGED monitorVars

StartServices_KeepsTrying ==
    /\ orch.pc = "restart_services"
    /\ Len(orch.starts) < orch.max_retries
    /\ \E ok \in BOOLEAN :
          orch' = [orch EXCEPT !.starts = Append(@, ok)]
    /\ UNCHANGED monitorVars

\* restart_services: one pass of `for attempt in range(1, retries + 1)`;
\* run_command("start_services", background=True) returns True or False.
StartServices ==
    /\ orch.pc = "restart_services"
    /\ Len(orch.starts) < orch.max_retries
    /\ \E ok \in BOOLEAN :
          orch' = [orch EXCEPT !.starts = Append(@, ok),
                               !.pc = IF ok THEN "services_up" ELSE @]
    /\ UNCHANGED monitorVars

\* restart_services: the loop is over, the exception is raised and caught by
\* run_single_test.
RestartGivesUp ==
    /\ orch.pc = "restart_services"
    /\ Len(orch.starts) >= orch.max_retries
    /\ orch' = [orch EXCEPT !.pc = "except",
                            !.error = "Failed to start services"]
    /\ UNCHANGED monitorVars

\* run_single_test after restart_services: subscribers, gNB, the monitor, the
\* UEs, the wait for the CSV, the copy and the parsing either all succeed,
\* and the parsed result is appended to test_results, or one of them raises.
RunTest ==
    /\ orch.pc = "services_up"
    /\ \E ok \in BOOLEAN :
          orch' = IF ok THEN [orch EXCEPT
                                !.pc = "returned",
                                !.success = Some(TRUE),
                                !.test_results =
                                    Append(@, orch.attempted[Len(orch.attempted)])]
                  ELSE [orch EXCEPT !.pc = "except", !.error = "test"]
    /\ UNCHANGED monitorVars

\* run_single_test: `except Exception`: cleanup_processes (nr-ue and nr-gnb
\* are killed), return False.
TestFails ==
    /\ orch.pc = "except"
    /\ orch' = [orch EXCEPT !.pc = "returned", !.success = Some(FALSE),
                            !.failures = @ + 1]
    /\ UNCHANGED monitorVars

AfterTest_StopsOnFailure ==
    /\ orch.pc = "returned"
    /\ orch' = [orch EXCEPT !.pc = IF orch.success = Some(FALSE)
                                   THEN "stopped" ELSE "loop"]
    /\ UNCHANGED monitorVars

\* run_all_tests: `if not success and not continue_on_failure: return`,
\* otherwise on to the next pass of the loops.
AfterTest ==
    /\ orch.pc = "returned"
    /\ orch' = [orch EXCEPT !.pc = IF /\ orch.success = Some(FALSE)
                                      /\ ~orch.continue_on_failure
                                   THEN "stopped" ELSE "loop"]
    /\ UNCHANGED monitorVars

\* run_all_tests: the loops are over, generate_summary_report is called; it
\* returns with a warning when test_results is empty and writes the report
\* otherwise.
GenerateReport ==
    /\ orch.pc = "loop"
    /\ ~HasNextTest
    /\ orch' = [orch EXCEPT !.pc = "finished",
                            !.report = (orch.test_results # <<>>)]
    /\ UNCHANGED monitorVars

\* run_all_tests is called; no monitor runs in this view of the orchestrator.
OrchInit ==
    /\ clock = 0
    /\ logFile = <<>>
    /\ fpos = 0
    /\ processed = <<>>
    /\ ue_windows = <<>>
    /\ samples = <<>>
    /\ sampling = TRUE
    /\ stop_event = FALSE
    /\ signalled = None
    /\ mainpc = "start"
    /\ samplerpc = "idle"
    /\ sample_ts = 0
    /\ measure_end = 0
    /\ join_deadline = 0
    /\ proc_alive = TRUE
    /\ interval = 1
    /\ num_expected = 1
    /\ csv_file = NoFile
    /\ per_ue_csv = NoFile
    /\ warnings = <<>>
    /\ analysis_started = None
    /\ \E uc \in UeCountLists, n \in 1..MaxIterations, c \in BOOLEAN,
          r \in 0..MaxRetries :
          orch = [OrchOff EXCEPT !.pc = "loop", !.ue_counts = uc,
                                 !.iterations = n,
                                 !.continue_on_failure = c,
                                 !.max_retries = r]

OrchNext ==
    \/ NextTest
    \/ ChangeAuth
    \/ StartServices
    \/ RestartGivesUp
    \/ RunTest
    \/ TestFails
    \/ AfterTest
    \/ GenerateReport

OrchSpec == OrchInit /\ [][OrchNext]_vars

\* ------------------------------------------- one test and its remote monitor
\* run_single_test from the Popen of the remote monitor on: the monitor's
\* process has just been created and the orchestrator is about to call
\* run_command("launch_ues").  The remote CSV was removed just before.
OrchRunnable ==
    \/ orch.pc \in {"launch_ues", "except"}
    \/ /\ orch.pc = "wait_csv"
       /\ csv_file.exists \/ clock >= orch.wait_start + CsvWaitTimeout

\* A second passes while the monitor's threads and the orchestrator wait.
TestTick ==
    /\ ~OrchRunnable
    /\ Tick(TestMaxClock)

\* A UE launched by launch_ues registers: the AMF appends the next line.
UeRegisters ==
    /\ orch.pc = "wait_csv"
    /\ clock <= orch.wait_start + MaxRegDelay
    /\ AppendLine(NextScripted(logFile))

\* run_command("launch_ues") returns True or False.
LaunchUEs ==
    /\ orch.pc = "launch_ues"
    /\ \E ok \in BOOLEAN :
          orch' = IF ok THEN [orch EXCEPT !.pc = "wait_csv",
                                          !.wait_start = clock]
                  ELSE [orch EXCEPT !.pc = "except",
                                    !.error = "Failed to launch UEs"]
    /\ UNCHANGED monitorVars

\* The wait ends because the remote CSV exists and is not empty; cleanup_ues,
\* then scp and the parsing succeed, and the result is appended to
\* test_results, or raise.
FetchCsv ==
    /\ orch.pc = "wait_csv"
    /\ csv_file.exists
    /\ csv_file.rows # <<>>
    /\ \E ok \in BOOLEAN :
          orch' = IF ok THEN [orch EXCEPT
                                !.pc = "returned",
                                !.success = Some(TRUE),
                                !.test_results =
                                    Append(@, orch.attempted[Len(orch.attempted)])]
                  ELSE [orch EXCEPT !.pc = "except",
                                    !.error = "Failed to SCP remote CSV"]
    /\ UNCHANGED monitorVars

\* `timeout 60s` ends the wait with the CSV still missing.
CsvTimeout ==
    /\ orch.pc = "wait_csv"
    /\ ~csv_file.exists
    /\ clock >= orch.wait_start + CsvWaitTimeout
    /\ orch' = [orch EXCEPT !.pc = "except",
                            !.error = "Timeout waiting for remote CSV"]
    /\ UNCHANGED monitorVars

TestInit ==
    /\ clock = 0
    /\ logFile = <<>>
    /\ fpos = 0
    /\ processed = <<>>
    /\ ue_windows = <<>>
    /\ samples = <<>>
    /\ sampling = TRUE
    /\ stop_event = FALSE
    /\ signalled = None
    /\ mainpc = "start"
    /\ samplerpc = "idle"
    /\ sample_ts = 0
    /\ measure_end = 0
    /\ join_deadline = 0
    /\ proc_alive \in BOOLEAN
    /\ interval \in Intervals
    /\ num_expected \in ExpectedCounts
    /\ csv_file = NoFile
    /\ per_ue_csv = NoFile
    /\ warnings = <<>>
    /\ analysis_started = None
    /\ orch = [OrchOff EXCEPT
                 !.pc = "launch_ues", !.ue_counts = <<num_expected>>,
                 !.iterations = 1, !.iteration = 1, !.current_test = 1,
                 !.attempted = <<<<auth_methods[1], num_expected, 1>>>>]

TestNext ==
    \/ TestTick
    \/ UeRegisters
    \/ GetPidFails
    \/ StartSampler
    \/ SamplerPrime
    \/ SamplerLoop
    \/ SamplerAppend
    \/ TrackerOpen
    \/ TrackerReadLine
    \/ StopSampler
    \/ JoinReturns
    \/ AnalyzeBegin
    \/ AnalyzeFinish
    \/ LaunchUEs
    \/ FetchCsv
    \/ CsvTimeout
    \/ TestFails

TestSpec == TestInit /\ [][TestNext]_vars

\* =================================================================== claims
UEs == {UE_A, UE_B}

\* The entry of entity ue; an entity without an entry has neither field set.
Window(w, ue) ==
    IF HasKey(w, ue) THEN w[IndexOf(w, ue)]
    ELSE [ue |-> ue, start |-> None, end |-> None]

NumClosed(w) ==
    Cardinality({i \in DOMAIN w : w[i].start # None /\ w[i].end # None})

TrackerReturned == mainpc \in {"stopping", "join", "analyze", "correlate", "done"}

\* The positions in the history of the open-marker lines of entity ue.
OpenLines(ue) ==
    {i \in DOMAIN processed : suci_match(processed[i].line) = Some(ue)}

\* The positions of the lines that match the imsi pattern for ue and hold the
\* substring "Registration complete".
CloseLines(ue) ==
    {i \in DOMAIN processed :
        /\ imsi_match(processed[i].line) = Some(ue)
        /\ HasRegistrationComplete(processed[i].line)}

\* C1: whatever lines the Tracker has read, an entity's start is the stamp of
\* the first open-marker line read for it (None when there is none): later
\* lines never overwrite it.
C1_StartIsFirstOpen ==
    \A ue \in UEs :
        Window(ue_windows, ue).start =
            IF OpenLines(ue) = {} THEN None
            ELSE Some(processed[Min(OpenLines(ue))].ts)

\* C1 witness: two open-marker lines for one entity were read at different
\* times and the start is the stamp of the first.
C1_Witness ==
    \E ue \in UEs : \E i, j \in OpenLines(ue) :
        /\ i < j
        /\ processed[i].ts < processed[j].ts
        /\ Window(ue_windows, ue).start = Some(processed[i].ts)

\* C2: an entity's end is the stamp of the first line read that matches the
\* imsi pattern for it and holds "Registration complete" (None when there is
\* none): it is never overwritten, and a line that matches the pattern
\* without the substring sets no end.
C2_EndIsFirstClose ==
    \A ue \in UEs :
        Window(ue_windows, ue).end =
            IF CloseLines(ue) = {} THEN None
            ELSE Some(processed[Min(CloseLines(ue))].ts)

\* C2 witness: a line matching the imsi pattern without the substring was
\* read first, then two close-marker lines at a later time; the end is the
\* stamp of the first close marker.
C2_Witness ==
    \E ue \in UEs : \E i \in DOMAIN processed : \E j, k \in CloseLines(ue) :
        /\ imsi_match(processed[i].line) = Some(ue)
        /\ ~HasRegistrationComplete(processed[i].line)
        /\ i < j /\ j < k
        /\ processed[i].ts < processed[j].ts
        /\ Window(ue_windows, ue).end = Some(processed[j].ts)

\* C3: every entity goes UNSEEN -> OPEN -> CLOSED only: after every step an
\* entity whose end is set has its start set, and a CLOSED entity does not
\* change.
C3_StateMachine ==
    [][\A ue \in UEs :
          /\ Window(ue_windows', ue).end # None
                => Window(ue_windows', ue).start # None
          /\ IsComplete(Window(ue_windows, ue))
                => Window(ue_windows', ue) = Window(ue_windows, ue)]_vars

\* The window map after the first k lines of the history.
RECURSIVE WindowsAfter(_)
WindowsAfter(k) ==
    IF k = 0 THEN <<>>
    ELSE ProcessLine(WindowsAfter(k - 1), processed[k].line, processed[k].ts)

\* C7: the Tracker has returned only if the number of CLOSED windows has
\* reached num_expected; while it is in its loop the number is below
\* num_expected; and every line it read was read while the number was below
\* num_expected, so it reads no line once the number is reached.
C7_ReturnsWhenCountReached ==
    /\ TrackerReturned => NumClosed(ue_windows) >= num_expected
    /\ mainpc = "monitor" => NumClosed(ue_windows) < num_expected
    /\ \A k \in 0..(Len(processed) - 1) :
           NumClosed(WindowsAfter(k)) < num_expected

\* C7 witness: the Tracker has returned with the count just reached, leaving a
\* line of the log unread.
C7_Witness ==
    /\ TrackerReturned
    /\ NumClosed(ue_windows) = num_expected
    /\ fpos < Len(logFile)
\* C4: once a stop signal has been delivered during the monitoring phase, the
\* monitoring phase ends: the Tracker leaves its loop.
C4_SignalEndsMonitoring ==
    (signalled = Some("monitor") /\ mainpc = "monitor") ~> (mainpc # "monitor")

\* The detail rows cover exactly the windows that are CLOSED.
PartialResultsWritten ==
    /\ mainpc = "done"
    /\ csv_file.exists
    /\ per_ue_csv.exists
    /\ csv_file.rows[Len(csv_file.rows)].num_UEs = NumClosed(ue_windows)
    /\ Len(per_ue_csv.rows) = 1 + NumClosed(ue_windows)

\* C5: a stop signal delivered when k of the expected entities are CLOSED,
\* 0 < k < num_expected, with Samples inside their global window, leads to
\* the summary row and the detail table of those k entities being written.
C5_SignalKeepsPartialResults ==
    (/\ signalled = Some("monitor")
     /\ mainpc = "monitor"
     /\ NumClosed(ue_windows) > 0
     /\ NumClosed(ue_windows) < num_expected
     /\ AnalysisStatus(samples, ue_windows) = "ok")
        ~> PartialResultsWritten

\* C6: no Sample is appended to the Sample Store once analyze_and_write has
\* begun: the store then holds what it held when correlation began.
C6_NoSampleAfterCorrelationBegan ==
    analysis_started # None => Len(samples) = analysis_started[1]

\* C8: with no stop signal delivered and fewer than num_expected entities
\* CLOSED, the Tracker has not returned, correlation has not run and no
\* output file exists.
C8_NoReturnBelowExpected ==
    (signalled = None /\ NumClosed(ue_windows) < num_expected)
        => /\ ~TrackerReturned
           /\ analysis_started = None
    /\ orch = OrchOff
           /\ ~csv_file.exists
           /\ ~per_ue_csv.exists

\* C8 witness: no signal, one of two expected entities CLOSED, every line of
\* the log read, Samples collected, and the Tracker still in its loop when the
\* clock stops.
C8_Witness ==
    /\ signalled = None
    /\ mainpc = "monitor"
    /\ num_expected = 2
    /\ NumClosed(ue_windows) = 1
    /\ fpos = Len(logFile)
    /\ samples # <<>>
    /\ clock = RunMaxClock
\* --------------------------------------------------- the Correlator's output
ClosedIdx(w) == {i \in DOMAIN w : w[i].start # None /\ w[i].end # None}

MinStart(w) == Min({w[i].start[1] : i \in ClosedIdx(w)})

MaxEnd(w) == Max({w[i].end[1] : i \in ClosedIdx(w)})

\* analyze_and_write has returned having written its files.
OutputWritten == mainpc = "done" /\ csv_file.exists /\ per_ue_csv.exists

LastSummary == csv_file.rows[Len(csv_file.rows)]

DetailRows == Tail(per_ue_csv.rows)

\* The sum of f[x] over the finite set S.
RECURSIVE SumOver(_, _)
SumOver(S, f) ==
    IF S = {} THEN 0
    ELSE LET x == CHOOSE y \in S : TRUE IN f[x] + SumOver(S \ {x}, f)

\* v is the quotient total / n rounded to the nearest unit.
IsRoundedMean(v, total, n) ==
    /\ 2 * (v * n - total) <= n
    /\ 2 * (total - v * n) <= n

\* C9: the output is that of the CLOSED windows alone: the entity count, the
\* global window and the average duration are those of the windows with both
\* fields set, and the detail table has one row for each of them and none for
\* an entity that is OPEN or has only an end.
C9_ClosedWindowsOnly ==
    OutputWritten =>
        LET w == ue_windows
            closed == ClosedIdx(w)
            dur == [i \in closed |-> (w[i].end[1] - w[i].start[1]) * Milli]
        IN  /\ LastSummary.num_UEs = Cardinality(closed)
            /\ LastSummary.total_time = (MaxEnd(w) - MinStart(w)) * Milli
            /\ IsRoundedMean(LastSummary.avg_ue_registration_time,
                             SumOver(closed, dur), Cardinality(closed))
            /\ Len(DetailRows) = Cardinality(closed)
            /\ \A i \in DOMAIN w :
                   (i \in closed) <=>
                       \E k \in DOMAIN DetailRows : DetailRows[k].ue = w[i].ue

\* C9 witness: output was written while an entity that is not CLOSED has its
\* one timestamp outside the global window of the CLOSED ones.
C9_Witness ==
    /\ OutputWritten
    /\ \E i \in DOMAIN ue_windows \ ClosedIdx(ue_windows) :
           \/ /\ ue_windows[i].start # None
              /\ ue_windows[i].start[1] < MinStart(ue_windows)
           \/ /\ ue_windows[i].end # None
              /\ ue_windows[i].end[1] > MaxEnd(ue_windows)

\* The Samples with min(start) <= timestamp <= max(end).
InGlobalWindow(w, samps) ==
    {i \in DOMAIN samps :
        MinStart(w) <= samps[i].ts /\ samps[i].ts <= MaxEnd(w)}

\* C10: the reported global window is [min(start), max(end)] over the CLOSED
\* windows, and the reported CPU and memory are the means, to the hundredth,
\* over exactly the Samples with min(start) <= t <= max(end); windows [0,2],
\* [1,3], [2,5] with Samples CPU 10, memory 100 at t = 0..5 give a global
\* window of 5 s, CPU 10.00 and memory 100.00.
C10_GlobalWindowMeans ==
    OutputWritten =>
        LET inw == InGlobalWindow(ue_windows, samples)
            cpu == [i \in inw |-> samples[i].cpu * Centi]
            mem == [i \in inw |-> samples[i].mem * Centi]
        IN  /\ LastSummary.total_time =
                   (MaxEnd(ue_windows) - MinStart(ue_windows)) * Milli
            /\ inw # {}
            /\ IsRoundedMean(LastSummary.avg_CPU, SumOver(inw, cpu),
                             Cardinality(inw))
            /\ IsRoundedMean(LastSummary.avg_memory, SumOver(inw, mem),
                             Cardinality(inw))
            /\ (ue_windows = ExampleWindows /\ samples = ExampleSamples)
                   => /\ LastSummary.total_time = 5 * Milli
                      /\ LastSummary.avg_CPU = 10 * Centi
                      /\ LastSummary.avg_memory = 100 * Centi

\* C10 witness: output was written with one Sample stamped exactly min(start)
\* and another exactly max(end), of different CPU readings.
C10_Witness ==
    /\ OutputWritten
    /\ \E i, j \in DOMAIN samples :
           /\ samples[i].ts = MinStart(ue_windows)
           /\ samples[j].ts = MaxEnd(ue_windows)
           /\ samples[i].ts < samples[j].ts
           /\ samples[i].cpu # samples[j].cpu

\* ------------------------------------------------- durations and empty results
\* C11: every detail row carries end - start of its entity's CLOSED window,
\* and the reported average is the sum of the rows' durations divided by
\* their number, to the millisecond the summary is written with; durations
\* 2, 2 and 3 (windows [0,2], [1,3], [2,5]) give 7/3, written 2.333.
C11_DurationsAndMean ==
    OutputWritten =>
        LET dur == [k \in DOMAIN DetailRows |-> DetailRows[k].duration]
        IN  /\ Len(DetailRows) = NumClosed(ue_windows)
            /\ \A k \in DOMAIN DetailRows :
                   LET win == Window(ue_windows, DetailRows[k].ue)
                   IN  /\ IsComplete(win)
                       /\ DetailRows[k].duration =
                              (win.end[1] - win.start[1]) * Milli
            /\ IsRoundedMean(LastSummary.avg_ue_registration_time,
                             SumOver(DOMAIN DetailRows, dur), Len(DetailRows))
            /\ ue_windows = ExampleWindows =>
                   /\ dur = <<2 * Milli, 2 * Milli, 3 * Milli>>
                   /\ LastSummary.avg_ue_registration_time = 2333

\* C11 witness: output was written for two CLOSED windows of different
\* durations whose mean differs from the length of the global window divided
\* by their number.
C11_Witness ==
    /\ OutputWritten
    /\ Len(DetailRows) = 2
    /\ DetailRows[1].duration # DetailRows[2].duration
    /\ 2 * LastSummary.avg_ue_registration_time # LastSummary.total_time

\* C13: a run with a CLOSED window always reports it, also when no Sample
\* lies inside the global window or the Sample Store is empty: the summary row
\* and the detail table are written and a warning is printed.
C13_ReportsWithoutSamples ==
    (mainpc = "done" /\ NumClosed(ue_windows) > 0) =>
        /\ csv_file.exists
        /\ per_ue_csv.exists
        /\ LastSummary.num_UEs = NumClosed(ue_windows)
        /\ InGlobalWindow(ue_windows, samples) = {} => warnings # <<>>

\* C16: when analyze_and_write has returned having written its files, the
\* data of both the summary and the detail file was flushed and forced to
\* stable storage.
C16_BothWritesDurable ==
    OutputWritten => csv_file.synced /\ per_ue_csv.synced

\* ------------------------------------------------ the files over several runs
\* The runs that have returned, and those among them that wrote their output:
\* a run that returns has printed one warning or written its row.
RunsReturned == IF mainpc = "done" THEN RunsBegun ELSE RunsBegun - 1

RunsThatWrote == RunsReturned - Len(warnings)

IsPrefix(s, t) == Len(s) <= Len(t) /\ SubSeq(t, 1, Len(s)) = s

\* C12: a run that reaches correlation with no window CLOSED leaves both
\* output files as they were, whether or not earlier runs wrote them, and
\* returns having printed a warning.
C12_NoClosedWindowNoOutput ==
    [][(NumClosed(ue_windows) = 0 /\ mainpc \in {"analyze", "correlate"})
          => /\ csv_file' = csv_file
             /\ per_ue_csv' = per_ue_csv
             /\ mainpc' = "done" => Len(warnings') = Len(warnings) + 1]_vars

\* C12 witness: a run with Samples and an OPEN window only has returned with
\* the warning, the files of an earlier run still in place.
C12_Witness ==
    /\ mainpc = "done"
    /\ ue_windows # <<>>
    /\ NumClosed(ue_windows) = 0
    /\ samples # <<>>
    /\ csv_file.exists
    /\ Len(per_ue_csv.rows) > 1
    /\ warnings # <<>>
    /\ warnings[Len(warnings)] = "no_windows"

\* C14: the summary file exists once a run has written; it is then one header
\* line followed by one data row for each run that wrote, in run order (N
\* rows after N runs that all produced output); and no step removes or
\* rewrites a line it holds.
C14_OneHeaderThenRows ==
    /\ [](/\ csv_file.exists <=> RunsThatWrote > 0
          /\ csv_file.exists =>
                /\ Len(csv_file.rows) = 1 + RunsThatWrote
                /\ csv_file.rows[1] = HeaderRow
                /\ \A k \in 2..Len(csv_file.rows) :
                       /\ csv_file.rows[k].kind = "row"
                       /\ \A j \in 2..(k - 1) :
                              csv_file.rows[j].timestamp
                                  < csv_file.rows[k].timestamp)
    /\ [][IsPrefix(csv_file.rows, csv_file'.rows)]_vars

\* C14 witness: two runs have returned, both wrote, and the file is the header
\* and their two different rows.
C14_Witness ==
    /\ mainpc = "done"
    /\ RunsBegun = 2
    /\ warnings = <<>>
    /\ Len(csv_file.rows) = 3
    /\ csv_file.rows[2].num_UEs # csv_file.rows[3].num_UEs

\* The detail file holds exactly the CLOSED windows of the window map w.
DetailIsOf(f, w) ==
    /\ f.exists
    /\ Len(f.rows) = 1 + NumClosed(w)
    /\ \A k \in 2..Len(f.rows) :
           LET win == Window(w, f.rows[k].ue)
           IN  /\ IsComplete(win)
               /\ f.rows[k].start = win.start[1]
               /\ f.rows[k].end = win.end[1]

C17_DuplicateLineChangesNothing ==
    [][(/\ mainpc = "monitor"
        /\ fpos' = fpos + 1
        /\ \E i \in DOMAIN processed : processed[i].line = logFile[fpos + 1])
          => ue_windows' = ue_windows]_vars

\* C17 witness: a line that is both an open marker and a close marker was
\* read twice, a second apart, and both windows keep the first stamp.
C17_Witness ==
    \E i, j \in DOMAIN processed :
        /\ i < j
        /\ processed[i].line = processed[j].line
        /\ processed[i].ts < processed[j].ts
        /\ suci_match(processed[i].line) # None
        /\ IsCloseMarker(processed[i].line)
        /\ Window(ue_windows, suci_match(processed[i].line)[1]).start
               = Some(processed[i].ts)
        /\ Window(ue_windows, imsi_match(processed[i].line)[1]).end
               = Some(processed[i].ts)

\* C18: an entity whose first open marker was read no later than its first
\* close marker has, once CLOSED, end >= start (the clock never goes back).
C18_EndNotBeforeStart ==
    \A ue \in UEs :
        (/\ IsComplete(Window(ue_windows, ue))
         /\ OpenLines(ue) # {}
         /\ CloseLines(ue) # {}
         /\ Min(OpenLines(ue)) <= Min(CloseLines(ue)))
            => Window(ue_windows, ue).end[1] >= Window(ue_windows, ue).start[1]

\* C18 witness: an entity was opened, closed a second later, and opened
\* again after that: its window still has end > start.
C18_Witness ==
    \E ue \in UEs : \E i, k \in OpenLines(ue) : \E j \in CloseLines(ue) :
        /\ i < j /\ j < k
        /\ processed[i].ts < processed[j].ts
        /\ Window(ue_windows, ue).end[1] > Window(ue_windows, ue).start[1]

\* C19: monitor_log starts reading at the end of what the log holds when it
\* opens it, never moves back, and changes the window map only by reading
\* the next line after its position: a line that was in the log before the
\* seek sets no start and no end.
C19_PreexistingNeverProcessed ==
    [][/\ mainpc = "sleep" =>
             /\ ue_windows' = ue_windows
             /\ processed' = processed
             /\ mainpc' = "monitor" => fpos' = Len(logFile)
       /\ mainpc = "monitor" =>
             /\ fpos' >= fpos
             /\ (ue_windows' # ue_windows \/ processed' # processed) =>
                    /\ fpos < Len(logFile)
                    /\ fpos' = fpos + 1
                    /\ processed' = Append(processed,
                                           [line |-> logFile[fpos + 1],
                                            ts |-> clock])]_vars

\* C19 witness: the log held an open and a close marker of entity 000001
\* before the seek; every line appended since was read, another entity has a
\* window and 000001 has none.
C19_Witness ==
    /\ mainpc = "monitor"
    /\ Len(logFile) > 2
    /\ logFile[1] = SuciLine(UE_A)
    /\ logFile[2] = ImsiDoneLine(UE_A)
    /\ fpos = Len(logFile)
    /\ Len(processed) = Len(logFile) - 2
    /\ HasKey(ue_windows, UE_B)
    /\ ~HasKey(ue_windows, UE_A)

\* ------------------------------------------------------ identifier suffixes
\* The last six tokens of an identifier.
Suffix(id) == SubSeq(id, Len(id) - 5, Len(id))

\* The full identifier of the open marker, and of the close marker, of the
\* i-th line read (None when the line is no such marker).
SuciIds == [l \in AllLines |-> MatchedId(l, "suci-", Digits \cup {"-"})]

ImsiIds == [l \in AllLines |-> MatchedId(l, "imsi-", Digits)]

OpenId(i) == SuciIds[processed[i].line]

CloseId(i) ==
    IF HasRegistrationComplete(processed[i].line)
    THEN ImsiIds[processed[i].line]
    ELSE None

\* The lines read whose open (close) identifier ends on the six digits u.
OpensOn(u) ==
    {i \in DOMAIN processed : OpenId(i) # None /\ Suffix(OpenId(i)[1]) = u}

ClosesOn(u) ==
    {i \in DOMAIN processed : CloseId(i) # None /\ Suffix(CloseId(i)[1]) = u}

\* C20: the window map has one entry for each six-digit suffix seen, whatever
\* the identifiers that end on it: its start is the stamp of the first open
\* marker and its end the stamp of the first close marker whose identifier
\* ends on those digits, so a close marker closes the window opened under
\* the other identifier form and subscribers sharing a suffix share one
\* window and count once.
C20_SuffixIsEntityId ==
    /\ \A i, j \in DOMAIN ue_windows :
           ue_windows[i].ue = ue_windows[j].ue => i = j
    /\ \A i \in DOMAIN ue_windows : ue_windows[i].ue \in UEs
    /\ \A u \in UEs :
           /\ Window(ue_windows, u).start =
                  IF OpensOn(u) = {} THEN None
                  ELSE Some(processed[Min(OpensOn(u))].ts)
           /\ Window(ue_windows, u).end =
                  IF ClosesOn(u) = {} THEN None
                  ELSE Some(processed[Min(ClosesOn(u))].ts)
    /\ NumClosed(ue_windows) =
           Cardinality({u \in UEs : OpensOn(u) # {} /\ ClosesOn(u) # {}})

\* C20 witness: two subscribers with different identifiers ending on the same
\* six digits; the first opened, the second opened a second later and
\* completed its registration; there is one window, from the first one's
\* open marker to the second one's close marker, counted once of the two
\* expected.
C20_Witness ==
    /\ num_expected = 2
    /\ mainpc = "monitor"
    /\ Len(ue_windows) = 1
    /\ NumClosed(ue_windows) = 1
    /\ \E u \in UEs : \E i, j \in OpensOn(u) : \E k \in ClosesOn(u) :
           /\ i < j /\ j < k
           /\ OpenId(i) # OpenId(j)
           /\ processed[i].ts < processed[j].ts
           /\ CloseId(k) = Some(<<"8">> \o u)
           /\ ue_windows[1].start = Some(processed[i].ts)
           /\ ue_windows[1].end = Some(processed[k].ts)

\* --------------------------------------------------- the monitored process
\* Nothing of the monitoring has happened: the sampler thread was not
\* started, the log was not opened, no file was written.
NothingStarted ==
    /\ samplerpc = "idle"
    /\ samples = <<>>
    /\ fpos = 0
    /\ processed = <<>>
    /\ ue_windows = <<>>
    /\ analysis_started = None
    /\ orch = OrchOff
    /\ ~csv_file.exists
    /\ ~per_ue_csv.exists

\* C21: while the process is not found, main goes nowhere but to its abort,
\* and an aborted run has started nothing: no sampler thread, the log never
\* opened, no output file.
C21_SetupFailureAborts ==
    /\ [](mainpc = "aborted" => ~proc_alive /\ NothingStarted)
    /\ [][(mainpc = "start" /\ ~proc_alive)
             => (mainpc' \in {"start", "aborted"} /\ NothingStarted')]_vars

\* C21 witness: the run was aborted; lines were written to the log and time
\* passed, none of it looked at.
C21_Witness ==
    /\ mainpc = "aborted"
    /\ logFile # <<>>
    /\ clock > 0
    /\ NothingStarted

\* C22: the sampler never ends by an exception, whenever the process
\* disappears after the thread was started.  (That main and the Tracker go
\* on, and correlation uses the Samples collected, holds in every run.)
C22_SamplerNeverRaises ==
    samplerpc # "raised"

\* ------------------------------------------------------------ the run ends
\* The window map once the Tracker has read the lines from position k on.
RECURSIVE WindowsIfRead(_, _)
WindowsIfRead(w, k) ==
    IF k > Len(logFile) THEN w
    ELSE WindowsIfRead(ProcessLine(w, logFile[k], clock), k + 1)

\* C23: once the lines appended after the Tracker's seek hold the open and
\* the close markers of num_expected entities, then, main and the sampler
\* being scheduled, the Tracker returns, main stops the sampler and
\* analyze_and_write is called.  (The join's timeout must fall within the
\* time the run is followed for.)
C23_EnoughMarkersEndMonitoring ==
    (/\ mainpc = "monitor"
     /\ NumClosed(WindowsIfRead(ue_windows, fpos + 1)) >= num_expected
     /\ clock + JoinTimeout <= LiveMaxClock)
        ~> (analysis_started # None /\ ~sampling /\ stop_event)

\* C23 witness: with no signal, the markers of the expected entities were
\* read; main stopped the sampler, gave up waiting for it while it was still
\* measuring, and correlation has begun.
C23_Witness ==
    /\ signalled = None
    /\ NumClosed(ue_windows) = num_expected
    /\ Len(processed) >= 2
    /\ ~sampling
    /\ stop_event
    /\ samplerpc = "measuring"
    /\ analysis_started # None

\* ------------------------------------------------------- rows and durations
\* C24: in a run that writes output, the detail table has as many rows as the
\* summary row's entity count says and as there are CLOSED windows, and no
\* two detail rows are about the same entity.
C24_RowCountsAgree ==
    OutputWritten =>
        /\ Len(DetailRows) = LastSummary.num_UEs
        /\ Len(DetailRows) = NumClosed(ue_windows)
        /\ \A j, k \in DOMAIN DetailRows :
               DetailRows[j].ue = DetailRows[k].ue => j = k

\* C24 witness: output was written from a window map of two entries of which
\* one is CLOSED: one detail row, an entity count of one.
C24_Witness ==
    /\ OutputWritten
    /\ Len(ue_windows) = 2
    /\ NumClosed(ue_windows) = 1
    /\ Len(DetailRows) = 1
    /\ LastSummary.num_UEs = 1

\* The CLOSED windows whose end is before their start.
Inverted(w) == {i \in ClosedIdx(w) : w[i].end[1] < w[i].start[1]}

\* C25: a CLOSED window with end before start that is reported is reported
\* with its negative duration and flagged as anomalous (a warning about it is
\* printed).
C25_InvertedWindowFlagged ==
    (OutputWritten /\ Inverted(ue_windows) # {}) =>
        /\ \A i \in Inverted(ue_windows) : \E k \in DOMAIN DetailRows :
               /\ DetailRows[k].ue = ue_windows[i].ue
               /\ DetailRows[k].duration < 0
        /\ \E n \in DOMAIN warnings : warnings[n] = "anomalous_window"

\* C29: whenever a summary row is written, the reported average duration is
\* at most the reported length of the global window, windows with end before
\* start included.
C29_MeanWithinGlobalWindow ==
    OutputWritten =>
        LastSummary.avg_ue_registration_time <= LastSummary.total_time

\* C29 witness: output was written with a CLOSED window whose end is before
\* its start and another of the full length of the global window.
C29_Witness ==
    /\ OutputWritten
    /\ Inverted(ue_windows) # {}
    /\ \E k \in DOMAIN DetailRows :
           DetailRows[k].duration = LastSummary.total_time
    /\ LastSummary.avg_ue_registration_time < LastSummary.total_time

\* ------------------------------------------------------ lines of no effect
\* The line the Tracker is about to read is neither an open marker nor a
\* close marker.
NextLineIsNoMarker ==
    /\ mainpc = "monitor"
    /\ fpos < Len(logFile)
    /\ suci_match(logFile[fpos + 1]) = None
    /\ ~(imsi_match(logFile[fpos + 1]) # None
           /\ HasRegistrationComplete(logFile[fpos + 1]))

\* C26: reading a line that is neither an open marker nor a close marker
\* (the identifier pattern together with the substring) leaves the window map
\* as it was, field for field and entry for entry.
C26_NoMarkerNoChange ==
    [][(NextLineIsNoMarker /\ fpos' = fpos + 1)
          => ue_windows' = ue_windows]_vars

\* C26 witness: a line with another entity's close identifier but not the
\* substring, and a line with the substring but no identifier, were read
\* after an entity was opened: that entity's window is the only entry.
C26_Witness ==
    /\ Len(ue_windows) = 1
    /\ ue_windows[1].ue = UE_A
    /\ ue_windows[1].end = None
    /\ \E i, j, k \in DOMAIN processed :
           /\ i < j /\ i < k
           /\ processed[i].line = SuciLine(UE_A)
           /\ processed[j].line = ImsiOnlyLine(UE_B)
           /\ processed[k].line = RcOnlyLine

\* ------------------------------------------------------- the Sample Store
\* C27: no step of analyze_and_write changes the window map; no step of main
\* (of the Tracker, of analyze_and_write) changes the Sample Store, and what
\* the store held stays in it.
C27_AnalysisReadsOnly ==
    [][/\ mainpc \in {"analyze", "correlate"} => ue_windows' = ue_windows
       /\ (\/ mainpc' # mainpc
           \/ fpos' # fpos
           \/ ue_windows' # ue_windows
           \/ csv_file' # csv_file
           \/ per_ue_csv' # per_ue_csv
           \/ warnings' # warnings) => samples' = samples
       /\ IsPrefix(samples, samples')]_vars

\* C27 witness: the files were written from a store holding a Sample taken
\* before the first window opened, and the store still holds it.
C27_Witness ==
    /\ OutputWritten
    /\ ue_windows # <<>>
    /\ \E i \in DOMAIN samples : samples[i].ts < MinStart(ue_windows)

\* C28: a Sample appended carries the clock value read when its cycle began,
\* a whole interval before it is appended, and no earlier than the stamp of
\* the Sample before it.
C28_StampIsCaptureTime ==
    [][Len(samples') > Len(samples) =>
          LET s == samples'[Len(samples')]
          IN  /\ samples' = Append(samples, s)
              /\ s.ts = sample_ts
              /\ s.ts + interval <= clock
              /\ samples # <<>> => samples[Len(samples)].ts <= s.ts]_vars

\* C28 witness: two Samples with different stamps, the second appended later
\* than its stamp.
C28_Witness ==
    /\ Len(samples) >= 2
    /\ samples[1].ts < samples[2].ts
    /\ samples[2].ts < clock
    /\ samplerpc = "loop"

\* ------------------------------------------------- the count at the return
\* C30: when the Tracker has returned, the number of CLOSED windows is
\* exactly num_expected: no line read completes more than one window.
C30_ExactlyExpected ==
    TrackerReturned => NumClosed(ue_windows) = num_expected

\* ------------------------------------------------ the sampler and the flag
\* The sampler's loop condition fails: `sampling` is False or stop_event is
\* set.
StopFlagSet == ~sampling \/ stop_event

SamplerLive == samplerpc \in {"prime", "loop", "measuring"}

\* C32: once the stop flag is set it stays set; from then on the sampler
\* starts no new cycle, the only Sample it appends is the one whose
\* measurement was in progress, after which its next loop test ends it, and a
\* sampler that has ended stays ended; in a fair run it does end (or the
\* process exits) once the measurement in progress can return.
C32_AtMostOneSampleAfterStop ==
    /\ [][/\ StopFlagSet => StopFlagSet'
          /\ StopFlagSet /\ samplerpc # "measuring"
                => /\ samples' = samples
                   /\ samplerpc' # "measuring"
          /\ StopFlagSet /\ samplerpc = "measuring" /\ samples' # samples
                => /\ Len(samples') = Len(samples) + 1
                   /\ samples'[Len(samples')].ts = sample_ts
                   /\ samplerpc' = "loop"
          /\ SamplerFinished => samplerpc' = samplerpc]_vars
    /\ (StopFlagSet /\ SamplerLive
          /\ (samplerpc = "measuring" => measure_end <= LiveMaxClock))
         ~> (~SamplerLive \/ Exited)

\* C32 witness: the coordinator set the flag while a measurement was in
\* progress; its Sample was appended after that and the sampler then ended.
C32_Witness ==
    /\ signalled = None
    /\ mainpc = "join"
    /\ stop_event
    /\ samplerpc = "done"
    /\ proc_alive
    /\ samples # <<>>
    /\ samples[Len(samples)].ts + interval > join_deadline - JoinTimeout

\* ------------------------------------------------- lines written in parts
\* The lines the AMF has finished writing among the entries log, in order:
\* a head is joined with the rest that follows it.
RECURSIVE WrittenLines(_)
WrittenLines(log) ==
    IF log = <<>> THEN <<>>
    ELSE IF log[1] \notin Heads THEN <<log[1]>> \o WrittenLines(Tail(log))
    ELSE IF Len(log) = 1 THEN <<>>
    ELSE <<log[1] \o log[2]>> \o WrittenLines(Tail(Tail(log)))

\* The entries appended after the Tracker's seek-to-end.
SinceSeek == SubSeq(logFile, fpos - Len(processed) + 1, Len(logFile))

\* C31: the lines the Tracker has processed are lines the AMF wrote after
\* the seek, each whole and in the order written, never a part of one; and
\* once the Tracker has read all that was written, every open marker written
\* has its entity's start set and every close marker its entity's end.
C31_WholeLinesOnly ==
    mainpc # "sleep" =>
        /\ IsPrefix([i \in DOMAIN processed |-> processed[i].line],
                    WrittenLines(SinceSeek))
        /\ (fpos = Len(logFile) /\ ~TailOpen) =>
              \A i \in DOMAIN WrittenLines(SinceSeek) :
                 LET l == WrittenLines(SinceSeek)[i]
                 IN  /\ suci_match(l) # None =>
                           Window(ue_windows, suci_match(l)[1]).start # None
                     /\ IsCloseMarker(l) =>
                           Window(ue_windows, imsi_match(l)[1]).end # None

\* ------------------------------------------- the offline analyzer's marks
\* The window maps of the live Tracker's loop body and of the offline
\* analyzer after the first k lines read, each line stamped with its
\* position in the sequence.
RECURSIVE LiveMarks(_)
LiveMarks(k) ==
    IF k = 0 THEN <<>>
    ELSE ProcessLine(LiveMarks(k - 1), processed[k].line, k)

RECURSIVE OfflineMarks(_)
OfflineMarks(k) ==
    IF k = 0 THEN <<>>
    ELSE log_timestamps_line(OfflineMarks(k - 1), processed[k].line, k)

CompleteEntries(w) == {w[i] : i \in completed(w)}

\* C35: over any sequence of lines, the offline analyzer and the Tracker's
\* loop body mark the same entities complete, with the start and the end of
\* each set by the same lines.
C35_SameCompleteWindows ==
    CompleteEntries(OfflineMarks(Len(processed)))
        = CompleteEntries(LiveMarks(Len(processed)))

\* ------------------------------------------- the orchestrator and the monitor
\* C33: whenever the log holds a line appended by a UE of the test, the
\* monitor's Tracker has already done its seek-to-end, and it did so at the
\* start of the log: no line of the test lies before the position it reads
\* from.  (A monitor that aborted at setup is left aside.)
C33_SeekBeforeFirstMarker ==
    (logFile # <<>> /\ mainpc # "aborted") =>
        /\ mainpc \notin {"start", "sleep"}
        /\ fpos - Len(processed) = 0

TestReturned == orch.pc = "returned"

\* C34: when run_single_test has returned, True or False, the monitor it
\* started has exited.
C34_MonitorGoneAtReturn ==
    TestReturned => Exited

\* The case of C34 the wait's timeout produces: the test has failed on the
\* timeout and the Tracker is still in its loop.
TimedOutStillTailing ==
    /\ TestReturned
    /\ orch.error = "Timeout waiting for remote CSV"
    /\ mainpc = "monitor"

\* ------------------------------------------------------------ run_all_tests
\* Every (auth_method, ue_count, iteration), the iteration varying fastest
\* and the authentication method slowest.
NestedOrder ==
    LET nu == Len(orch.ue_counts)
        ni == orch.iterations
    IN  [k \in 1..(Len(auth_methods) * nu * ni) |->
            <<auth_methods[((k - 1) \div (nu * ni)) + 1],
              orch.ue_counts[(((k - 1) \div ni) % nu) + 1],
              ((k - 1) % ni) + 1>>]

RunEnded == orch.pc \in {"finished", "stopped"}

LastFailed == orch.success = Some(FALSE)

\* What C36 says of the order of the tests and of the first failure ending
\* the run: the tests attempted are the first combinations in nested order,
\* each once; with continue_on_failure the run never stops early and ends with
\* every combination attempted; without it at most one test fails, it is the
\* last one attempted, no report is written, and the run stops there.
TestsInOrder ==
    /\ orch.attempted = SubSeq(NestedOrder, 1, Len(orch.attempted))
    /\ orch.current_test = Len(orch.attempted)
    /\ orch.pc = "finished" => orch.attempted = NestedOrder
    /\ orch.report => orch.pc = "finished"
    /\ orch.continue_on_failure => orch.pc # "stopped"
    /\ ~orch.continue_on_failure =>
          /\ orch.failures <= 1
          /\ orch.failures = 1 =>
                LastFailed /\ orch.pc \in {"returned", "stopped"}
          /\ orch.pc = "stopped" => orch.failures = 1

\* C36 as stated: with continue_on_failure the run ends with the summary
\* report generated.
C36_EveryTestThenReport ==
    /\ TestsInOrder
    /\ (orch.continue_on_failure /\ RunEnded) => orch.report

\* C36, amended: with continue_on_failure the run ends with the summary
\* report generated exactly when some test succeeded.
C36_ReportIfAnyResult ==
    /\ TestsInOrder
    /\ (orch.continue_on_failure /\ RunEnded) =>
          (orch.report <=> orch.failures < Len(orch.attempted))

\* C36 witness: with continue_on_failure, a test failed, a later one
\* succeeded, every combination was attempted and the report was written.
C36_Witness ==
    /\ orch.continue_on_failure
    /\ orch.pc = "finished"
    /\ orch.failures >= 1
    /\ orch.success = Some(TRUE)
    /\ Len(orch.attempted) = total_tests
    /\ orch.report

\* -------------------------------------------------------- restart_services
\* C37: at most max_retries start attempts are made; none follows one that
\* succeeded, which ends restart_services at once; and the error is raised
\* only with max_retries attempts made and all of them failed.
C37_BoundedRetries ==
    /\ Len(orch.starts) <= orch.max_retries
    /\ \A i \in 1..(Len(orch.starts) - 1) : ~orch.starts[i]
    /\ (orch.starts # <<>> /\ orch.starts[Len(orch.starts)]) =>
          /\ orch.pc # "restart_services"
          /\ orch.error # "Failed to start services"
    /\ orch.error = "Failed to start services" =>
          /\ Len(orch.starts) = orch.max_retries
          /\ \A i \in DOMAIN orch.starts : ~orch.starts[i]
    /\ orch.pc = "services_up" =>
          orch.starts # <<>> /\ orch.starts[Len(orch.starts)]

\* C37 witness: the first attempt failed and the second succeeded.
C37_Witness ==
    /\ orch.pc = "services_up"
    /\ orch.starts = <<FALSE, TRUE>>
====
